---- MODULE Spec2Model ----
(***************************************************************************)
(* Model of pyfield.py: a grid path planner for a robot on a square field. *)
(* Cells are pairs <<x, y>>; grid[y][x] = 1 is modelled as <<x, y>> \in    *)
(* grid.  All physical quantities are millimetres.  Every value the code   *)
(* computes on the inputs used here is an integer (CELL_MM is even, so     *)
(* cell centres and the field half-width are whole millimetres); the two   *)
(* rectangle half-sizes that are not are compared in doubled units.        *)
(***************************************************************************)
EXTENDS Integers, Sequences, FiniteSets, TLC

(***************************************************************************)
(* Field / grid settings (pyfield.py lines 8-25).  The grid is scaled down *)
(* from 72 cells a side; the field keeps FIELD_SIZE_MM = GRID_SIZE*CELL_MM *)
(* (3600 = 72 * 50 in the source).                                         *)
(***************************************************************************)
GRID_SIZE == 5
CELL_MM == 50
FIELD_SIZE_MM == GRID_SIZE * CELL_MM
FIELD_HALF_MM == FIELD_SIZE_MM \div 2
BOT_DIAMETER_MM == 300
BOT_RADIUS_MM == BOT_DIAMETER_MM \div 2
SAFETY_MARGIN_MM == 50
COLLISION_RADIUS_MM == BOT_RADIUS_MM + SAFETY_MARGIN_MM
DEFAULT_INFLATION_RADIUS_MM == COLLISION_RADIUS_MM

\* Bound of the model: the longest waypoint list.
MaxWaypoints == 1

Cells == (0 .. GRID_SIZE - 1) \X (0 .. GRID_SIZE - 1)

\* Python's None for start / goal (a value comparable with a cell).
None == << >>

VARIABLES
    grid,                \* the base obstacles: the cells with grid[y][x] = 1
    inflated_obstacles,  \* the global set of that name
    start, goal,         \* a cell or None
    waypoints,           \* the list of waypoint cells
    path,                \* the stored route
    pc,                  \* where a stepwise compute_total_path stands
    obstacles,           \* compute_total_path's local obstacles
    full_path, current,  \* compute_total_path's locals of those names
    leg,                 \* index of wp in waypoints + [goal]
    search,              \* a_star's locals: open_set, came_from, g_score
    probe                \* a coordinate conversion under test

session == <<grid, inflated_obstacles, start, goal, waypoints, path>>
planning == <<pc, obstacles, full_path, current, leg, search>>
vars == <<session, planning, probe>>

---------------------------------------------------------------------------
\* GPS <-> grid conversion

Max(a, b) == IF a >= b THEN a ELSE b
Min(a, b) == IF a <= b THEN a ELSE b
Abs(a) == IF a < 0 THEN -a ELSE a

clamp(val, lo, hi) == Max(lo, Min(hi, val))

\* floor division by CELL_MM, then clamping of each index
gps_to_grid(x_mm, y_mm) ==
    LET gx == (x_mm + FIELD_HALF_MM) \div CELL_MM
        gy == (FIELD_HALF_MM - y_mm) \div CELL_MM
    IN  <<clamp(gx, 0, GRID_SIZE - 1), clamp(gy, 0, GRID_SIZE - 1)>>

\* grid_to_gps returning the cell's far corner: (g + 1) * CELL_MM
grid_to_gps_corner(gx, gy) ==
    <<(gx * CELL_MM + CELL_MM) - FIELD_HALF_MM,
      FIELD_HALF_MM - (gy * CELL_MM + CELL_MM)>>

\* centre of the cell: (g + 0.5) * CELL_MM = g * CELL_MM + CELL_MM / 2
grid_to_gps(gx, gy) ==
    <<(gx * CELL_MM + CELL_MM \div 2) - FIELD_HALF_MM,
      FIELD_HALF_MM - (gy * CELL_MM + CELL_MM \div 2)>>

\* math.ceil(r / CELL_MM) for an integer r
CeilDiv(r, d) == -((-r) \div d)

---------------------------------------------------------------------------
\* A* path finding

heuristic(a, b) == Abs(a[1] - b[1]) + Abs(a[2] - b[2])

Least(S) == CHOOSE v \in S : \A w \in S : v <= w

\* heapq.heappop: the least entry (priority, (x, y)) in Python's tuple
\* order: least priority, then least x, then least y.  An entry is pushed
\* for a cell only with a strictly smaller g than before, so no entry is in
\* the heap twice and the heap is a set.
heappop(heap) ==
    LET p == Least({e[1] : e \in heap})
        x == Least({e[2][1] : e \in {f \in heap : f[1] = p}})
        y == Least({e[2][2] : e \in {f \in heap : f[1] = p /\ f[2][1] = x}})
    IN  <<p, <<x, y>>>>

EmptyMap == [c \in {} |-> c]

\* lines 97-99
AStarInit(st) ==
    [open_set |-> {<<0, st>>}, came_from |-> EmptyMap, g_score |-> (st :> 0),
     done |-> FALSE, found |-> FALSE, path |-> << >>]

Reverse(s) == [i \in 1 .. Len(s) |-> s[Len(s) + 1 - i]]

RECURSIVE WalkBack(_, _, _)
\* lines 107-109: append cur and follow cf while it has an entry
WalkBack(cf, cur, acc) ==
    IF cur \in DOMAIN cf
    THEN WalkBack(cf, cf[cur], Append(acc, cur))
    ELSE acc

\* lines 106-111
ReconstructPath(cf, st, cur) ==
    Reverse(Append(WalkBack(cf, cur, << >>), st))

neighbors(cur) ==
    {<<cur[1] + 1, cur[2]>>, <<cur[1] - 1, cur[2]>>,
     <<cur[1], cur[2] + 1>>, <<cur[1], cur[2] - 1>>}

\* the loop without its test of the obstacle set
Relaxed_unblocked(s, cur, blocked) ==
    {n \in neighbors(cur) :
        /\ 0 <= n[1] /\ n[1] < GRID_SIZE /\ 0 <= n[2] /\ n[2] < GRID_SIZE
        /\ n \notin DOMAIN s.g_score \/ s.g_score[cur] + 1 < s.g_score[n]}

\* the loop with the grid's last column and row cut off
Relaxed_short(s, cur, blocked) ==
    {n \in neighbors(cur) :
        /\ 0 <= n[1] /\ n[1] < GRID_SIZE - 1 /\ 0 <= n[2] /\ n[2] < GRID_SIZE - 1
        /\ n \notin blocked
        /\ n \notin DOMAIN s.g_score \/ s.g_score[cur] + 1 < s.g_score[n]}

\* lines 117-123: the neighbours of cur that the loop pushes.  The four
\* turns of the loop read g_score[cur] and write the entries of four other
\* cells, so no turn changes what another does.
Relaxed(s, cur, blocked) ==
    {n \in neighbors(cur) :
        /\ 0 <= n[1] /\ n[1] < GRID_SIZE /\ 0 <= n[2] /\ n[2] < GRID_SIZE
        /\ n \notin blocked
        /\ n \notin DOMAIN s.g_score \/ s.g_score[cur] + 1 < s.g_score[n]}

\* the loop pushing with the heuristic alone as priority
Relax_greedy(s, heap, cur, gl, blocked) ==
    LET pushed == Relaxed(s, cur, blocked)
        tentative_g == s.g_score[cur] + 1
    IN  [s EXCEPT
           !.g_score = [n \in pushed |-> tentative_g] @@ s.g_score,
           !.open_set = heap \cup {<<heuristic(n, gl), n>> : n \in pushed},
           !.came_from = [n \in pushed |-> cur] @@ s.came_from]

\* lines 116-127: the for loop, on the heap after the pop
Relax(s, heap, cur, gl, blocked) ==
    LET pushed == Relaxed(s, cur, blocked)
        tentative_g == s.g_score[cur] + 1
    IN  [s EXCEPT
           !.g_score = [n \in pushed |-> tentative_g] @@ s.g_score,
           !.open_set = heap \cup {<<tentative_g + heuristic(n, gl), n>> : n \in pushed},
           !.came_from = [n \in pushed |-> cur] @@ s.came_from]

\* a turn that reads the heap's least entry and leaves it in the heap
AStarStep_peek(s, st, gl, blocked) ==
    IF s.open_set = {}
    THEN [s EXCEPT !.done = TRUE, !.found = FALSE]
    ELSE LET e == heappop(s.open_set)
         IN  IF e[2] = gl
             THEN [s EXCEPT !.done = TRUE, !.found = TRUE,
                            !.path = ReconstructPath(s.came_from, st, e[2])]
             ELSE Relax(s, s.open_set, e[2], gl, blocked)

\* One turn of the while loop (lines 101-127), or its exit at line 129.
AStarStep(s, st, gl, blocked) ==
    IF s.open_set = {}
    THEN [s EXCEPT !.done = TRUE, !.found = FALSE]
    ELSE LET e == heappop(s.open_set)
         IN  IF e[2] = gl
             THEN [s EXCEPT !.open_set = s.open_set \ {e},
                            !.done = TRUE, !.found = TRUE,
                            !.path = ReconstructPath(s.came_from, st, e[2])]
             ELSE Relax(s, s.open_set \ {e}, e[2], gl, blocked)

\* the value of an expression, worked out once
Only(S) == CHOOSE v \in S : TRUE

RECURSIVE AStarRun(_, _, _, _)
\* the while loop, turn after turn
AStarRun(s, st, gl, blocked) ==
    IF s.done THEN s
    ELSE Only({AStarRun(t, st, gl, blocked) : t \in {AStarStep(s, st, gl, blocked)}})

\* a_star(start, goal, blocked): found = FALSE stands for the None result
a_star(st, gl, blocked) ==
    Only({[found |-> s.found, path |-> s.path] :
            s \in {AStarRun(AStarInit(st), st, gl, blocked)}})

---------------------------------------------------------------------------
\* Inflation and whole-route computation

\* grid_to_gps of every cell of the grid, tabulated
Centre == [c \in Cells |-> grid_to_gps(c[1], c[2])]

\* dx*dx + dy*dy
SqDist(p, q) == (p[1] - q[1]) * (p[1] - q[1]) + (p[2] - q[2]) * (p[2] - q[2])

\* the inflation with a strict distance test
InflateCell_strict(o) ==
    LET r2 == COLLISION_RADIUS_MM * COLLISION_RADIUS_MM
        cell_radius == CeilDiv(COLLISION_RADIUS_MM, CELL_MM)
        gx_min == clamp(o[1] - cell_radius, 0, GRID_SIZE - 1)
        gx_max == clamp(o[1] + cell_radius, 0, GRID_SIZE - 1)
        gy_min == clamp(o[2] - cell_radius, 0, GRID_SIZE - 1)
        gy_max == clamp(o[2] + cell_radius, 0, GRID_SIZE - 1)
    IN  {c \in (gx_min .. gx_max) \X (gy_min .. gy_max) :
            SqDist(Centre[c], Centre[o]) < r2}

\* lines 149-161 for one base cell
InflateCell(o) ==
    LET r2 == COLLISION_RADIUS_MM * COLLISION_RADIUS_MM
        cell_radius == CeilDiv(COLLISION_RADIUS_MM, CELL_MM)
        gx_min == clamp(o[1] - cell_radius, 0, GRID_SIZE - 1)
        gx_max == clamp(o[1] + cell_radius, 0, GRID_SIZE - 1)
        gy_min == clamp(o[2] - cell_radius, 0, GRID_SIZE - 1)
        gy_max == clamp(o[2] + cell_radius, 0, GRID_SIZE - 1)
    IN  {c \in (gx_min .. gx_max) \X (gy_min .. gy_max) :
            SqDist(Centre[c], Centre[o]) <= r2}

\* the new value of inflated_obstacles
build_inflated_obstacles(g) ==
    IF g = {} THEN {} ELSE UNION {InflateCell(o) : o \in g}

\* lines 180-182: full_path after a segment is appended
Extend(acc_path, segment) ==
    acc_path \o (IF acc_path # << >> THEN Tail(segment) ELSE segment)

RECURSIVE Legs(_, _, _, _, _)
\* lines 175-185: the loop over waypoints + [goal]; wps[i] is wp
Legs(wps, i, cur, acc_path, blocked) ==
    IF i > Len(wps) THEN acc_path
    ELSE Only({IF ~segment.found \/ segment.path = << >>
               THEN << >>
               ELSE Only({Legs(wps, i + 1, wps[i], ext, blocked) :
                            ext \in {Extend(acc_path, segment.path)}}) :
               segment \in {a_star(cur, wps[i], blocked)}})

\* compute_total_path searching on the inflated set as it stands
compute_total_path_stale(st, gl, wps, g, inflated) ==
    IF st = None \/ gl = None
    THEN [path |-> << >>, inflated |-> inflated]
    ELSE [path |-> Legs(Append(wps, gl), 1, st, << >>, inflated), inflated |-> inflated]

\* compute_total_path: the new values of path and inflated_obstacles
compute_total_path(st, gl, wps, g, inflated) ==
    IF st = None \/ gl = None
    THEN [path |-> << >>, inflated |-> inflated]
    ELSE Only({[path |-> Legs(Append(wps, gl), 1, st, << >>, infl), inflated |-> infl] :
                 infl \in {build_inflated_obstacles(g)}})

clear_path_and_waypoints == [path |-> << >>, waypoints |-> << >>]

---------------------------------------------------------------------------
\* Geometry helpers (mm-based): each returns the new base grid

add_edge_margin(g, margin_mm) ==
    g \cup {c \in Cells :
              \/ Abs(Centre[c][1]) > FIELD_HALF_MM - margin_mm
              \/ Abs(Centre[c][2]) > FIELD_HALF_MM - margin_mm}

\* x_min = cx - w / 2 and the like, compared in doubled units
add_rect_mm(g, cx_mm, cy_mm, w_mm, h_mm) ==
    g \cup {c \in Cells :
              /\ 2 * cx_mm - w_mm <= 2 * Centre[c][1]
              /\ 2 * Centre[c][1] <= 2 * cx_mm + w_mm
              /\ 2 * cy_mm - h_mm <= 2 * Centre[c][2]
              /\ 2 * Centre[c][2] <= 2 * cy_mm + h_mm}

add_disk_mm(g, x_mm, y_mm, radius_mm) ==
    LET r2 == radius_mm * radius_mm
        center == gps_to_grid(x_mm, y_mm)
        radius_cells == CeilDiv(radius_mm, CELL_MM)
        min_gx == clamp(center[1] - radius_cells, 0, GRID_SIZE - 1)
        max_gx == clamp(center[1] + radius_cells, 0, GRID_SIZE - 1)
        min_gy == clamp(center[2] - radius_cells, 0, GRID_SIZE - 1)
        max_gy == clamp(center[2] + radius_cells, 0, GRID_SIZE - 1)
    IN  g \cup {c \in (min_gx .. max_gx) \X (min_gy .. max_gy) :
                  SqDist(Centre[c], <<x_mm, y_mm>>) <= r2}

\* the centres of the small diagonal X (lines 314-324)
centers ==
    <<<<-150, -150>>, <<-150, 150>>, <<-200, -200>>, <<-200, 200>>, <<0, 0>>,
      <<150, 150>>, <<150, -150>>, <<200, 200>>, <<200, -200>>>>

RECURSIVE AddDisks(_, _, _)
\* lines 325-326
AddDisks(g, i, R) ==
    IF i > Len(centers) THEN g
    ELSE AddDisks(add_disk_mm(g, centers[i][1], centers[i][2], R), i + 1, R)

add_field_obstacles_with_small_x(g) ==
    LET walls == add_edge_margin(g, 100)
        top == add_rect_mm(walls, 0, 1200, 1000, 125)
        bottom == add_rect_mm(top, 0, -1200, 1000, 125)
    IN  AddDisks(bottom, 1, 250)

\* reset_field: the new session state
reset_field ==
    LET g == add_field_obstacles_with_small_x({})
    IN  [grid |-> g, path |-> << >>, waypoints |-> << >>, start |-> None,
         goal |-> None, inflated |-> build_inflated_obstacles(g)]

---------------------------------------------------------------------------
\* Inputs of the handlers

\* cells of obstacle clicks
EditCells == {<<0, 0>>, <<0, 1>>}

\* cells of start / goal / waypoint clicks
ClickCells == {<<GRID_SIZE - 1, 0>>, <<GRID_SIZE - 1, GRID_SIZE - 1>>, <<1, GRID_SIZE - 1>>}

\* A token of the input line: a number, or text float() rejects.
Num(v) == [num |-> TRUE, val |-> v]
Junk == [num |-> FALSE, val |-> 0]

\* input lines, split into tokens: a point left of the field with the
\* default radius, the centre of cell (0, 0) with a radius of 30 mm, and
\* four lines the parser rejects
Texts ==
    {<<Num(-250), Num(100)>>,
     <<Num(25 - FIELD_HALF_MM), Num(FIELD_HALF_MM - 25), Num(30)>>,
     << >>,
     <<Num(0)>>,
     <<Num(0), Junk, Num(50)>>,
     <<Num(0), Num(0), Num(50), Num(50)>>}

---------------------------------------------------------------------------
\* The session

PlanningIdle ==
    /\ pc = "idle"
    /\ obstacles = {}
    /\ full_path = << >>
    /\ current = None
    /\ leg = 0
    /\ search = AStarInit(None)

ProbeIdle == probe = [stage |-> "idle", point |-> <<0, 0>>, cell |-> None,
                      centre |-> <<0, 0>>, back |-> None]

\* The field as constructed (lines 428-429), and the fields a user reaches
\* from it by removing obstacles and pressing C (which rebuilds the
\* inflation, line 492) before anything else is set.
InitGrids == {add_field_obstacles_with_small_x({})} \cup SUBSET EditCells

Init ==
    /\ grid \in InitGrids
    /\ inflated_obstacles = build_inflated_obstacles(grid)
    /\ start = None
    /\ goal = None
    /\ waypoints = << >>
    /\ path = << >>
    /\ PlanningIdle
    /\ ProbeIdle

\* the call of compute_total_path() that ends a handler, on the session
\* the handler has just written
Recompute(st, gl, wps, g) ==
    \E r \in {compute_total_path(st, gl, wps, g, inflated_obstacles)} :
        /\ path' = r.path
        /\ inflated_obstacles' = r.inflated

\* lines 455-460, without Shift
LeftClick(c) ==
    /\ grid' = grid \cup {c}
    /\ UNCHANGED <<start, goal, waypoints, planning, probe>>
    /\ Recompute(start, goal, waypoints, grid \cup {c})

\* the handler without its call of compute_total_path()
ShiftLeftClick_only(c) ==
    /\ start' = c
    /\ UNCHANGED <<grid, inflated_obstacles, goal, waypoints, path, planning, probe>>

\* lines 455-460, with Shift
ShiftLeftClick(c) ==
    /\ start' = c
    /\ UNCHANGED <<grid, goal, waypoints, planning, probe>>
    /\ Recompute(c, goal, waypoints, grid)

\* lines 463-468, without Shift
RightClick(c) ==
    /\ grid' = grid \ {c}
    /\ UNCHANGED <<start, goal, waypoints, planning, probe>>
    /\ Recompute(start, goal, waypoints, grid \ {c})

\* lines 463-468, with Shift
ShiftRightClick(c) ==
    /\ goal' = c
    /\ UNCHANGED <<grid, start, waypoints, planning, probe>>
    /\ Recompute(start, c, waypoints, grid)

\* lines 471-473
MiddleClick(c) ==
    /\ Len(waypoints) < MaxWaypoints
    /\ waypoints' = Append(waypoints, c)
    /\ UNCHANGED <<grid, start, goal, planning, probe>>
    /\ Recompute(start, goal, Append(waypoints, c), grid)

\* lines 490-492
KeyC ==
    /\ path' = clear_path_and_waypoints.path
    /\ waypoints' = clear_path_and_waypoints.waypoints
    /\ inflated_obstacles' = build_inflated_obstacles(grid)
    /\ UNCHANGED <<grid, start, goal, planning, probe>>

\* lines 495-496
KeyR ==
    \E r \in {reset_field} :
        /\ grid' = r.grid
        /\ path' = r.path
        /\ waypoints' = r.waypoints
        /\ start' = r.start
        /\ goal' = r.goal
        /\ inflated_obstacles' = r.inflated
        /\ UNCHANGED <<planning, probe>>

\* parse_and_inflate_from_text: the tokens of an accepted line, or << >>
ParsedParts(text) ==
    LET parts == IF Len(text) = 2
                 THEN Append(text, Num(DEFAULT_INFLATION_RADIUS_MM))
                 ELSE text
    IN  IF Len(text) = 0 THEN << >>
        ELSE IF Len(parts) # 3 THEN << >>
        ELSE IF \E i \in 1 .. 3 : ~parts[i].num THEN << >>
        ELSE parts

\* lines 504-505: Enter in the input field; inflate_obstacle_gps on an
\* accepted line, nothing otherwise
TextCommand(text) ==
    LET parts == ParsedParts(text) IN
    IF parts = << >>
    THEN UNCHANGED vars
    ELSE \E g \in {add_disk_mm(grid, parts[1].val, parts[2].val, parts[3].val)} :
         /\ grid' = g
         /\ UNCHANGED <<start, goal, waypoints, planning, probe>>
         /\ Recompute(start, goal, waypoints, g)

Next ==
    \/ \E c \in EditCells : LeftClick(c)
    \/ \E c \in EditCells : RightClick(c)
    \/ \E c \in ClickCells : ShiftLeftClick(c)
    \/ \E c \in ClickCells : ShiftRightClick(c)
    \/ \E c \in ClickCells : MiddleClick(c)
    \/ KeyC
    \/ KeyR
    \/ \E text \in Texts : TextCommand(text)

Spec == Init /\ [][Next]_vars

---------------------------------------------------------------------------
\* compute_total_path step by step, a_star one pop at a time, on obstacle
\* sets given as input (the search reads nothing but its three arguments)

Corners ==
    {<<0, 0>>, <<GRID_SIZE - 1, 0>>, <<0, GRID_SIZE - 1>>, <<GRID_SIZE - 1, GRID_SIZE - 1>>}

\* endpoints of the planned routes
PlanCells == Corners \cup {<<2, 2>>}

\* waypoints of the planned routes
WpCells == {<<GRID_SIZE - 1, GRID_SIZE - 1>>, <<2, GRID_SIZE - 1>>}

WpLists == UNION {[1 .. n -> WpCells] : n \in 0 .. MaxWaypoints}

\* the column x = 2
Wall == {<<2, y>> : y \in 0 .. GRID_SIZE - 1}

\* the two neighbours of the corner (GRID_SIZE-1, GRID_SIZE-1)
Enclosure == {<<GRID_SIZE - 2, GRID_SIZE - 1>>, <<GRID_SIZE - 1, GRID_SIZE - 2>>}

\* a hook that a search from (0, 0) has to walk around
Hook == {<<1, 0>>, <<1, 1>>, <<1, 2>>, <<2, 2>>, <<3, 2>>, <<3, 1>>}

\* cells in the middle of the grid, taken in every combination
Pool == ((1 .. 2) \X (1 .. 2)) \cup {<<3, 2>>}

ObstacleSets ==
    SUBSET Pool
      \cup {Wall, Enclosure, Hook, {<<0, 0>>}, Wall \cup {<<0, 0>>}}
      \cup {Wall \ {c} : c \in Wall}
      \cup {(Wall \ {c}) \cup {<<0, 0>>, <<0, 1>>} : c \in {<<2, GRID_SIZE - 1>>}}

\* where the runs with waypoints and obstacles start
PlanStarts == {<<0, 0>>, <<2, 2>>, None}

\* compute_total_path is called: nothing stored, nothing searched yet
PlanStart ==
    /\ grid = {}
    /\ inflated_obstacles = obstacles
    /\ path = << >>
    /\ pc = "call"
    /\ full_path = << >>
    /\ current = None
    /\ leg = 0
    /\ search = AStarInit(None)
    /\ ProbeIdle

\* every pair of cells on the empty grid; the chosen endpoints, waypoint
\* lists and obstacle sets in every combination
PlanInit ==
    /\ \/ /\ start \in Cells
          /\ goal \in Cells
          /\ waypoints = << >>
          /\ obstacles = {}
       \/ /\ start \in PlanStarts
          /\ goal \in PlanCells \cup {None}
          /\ waypoints \in WpLists
          /\ obstacles \in ObstacleSets
    /\ PlanStart

\* the obstacle sets of the runs checked for termination
FairObstacleSets == {{}, Wall, Hook}

FairInit ==
    /\ start \in PlanStarts
    /\ goal \in PlanCells \cup {None}
    /\ waypoints \in WpLists
    /\ obstacles \in FairObstacleSets
    /\ PlanStart

\* waypoints + [goal]
targets == Append(waypoints, goal)

\* lines 165-173
Enter ==
    /\ pc = "call"
    /\ IF start = None \/ goal = None
       THEN /\ path' = << >>
            /\ pc' = "done"
            /\ UNCHANGED <<full_path, current, leg>>
       ELSE /\ full_path' = << >>
            /\ current' = start
            /\ leg' = 1
            /\ pc' = "for"
            /\ UNCHANGED path
    /\ UNCHANGED <<grid, inflated_obstacles, start, goal, waypoints, obstacles, search, probe>>

\* line 176, the call, and lines 97-99
CallAStar ==
    /\ pc = "for"
    /\ leg <= Len(targets)
    /\ search' = AStarInit(current)
    /\ pc' = "a_star"
    /\ UNCHANGED <<session, obstacles, full_path, current, leg, probe>>

\* lines 101-129: one turn of the while loop
Pop ==
    /\ pc = "a_star"
    /\ ~search.done
    /\ \E s \in {AStarStep(search, current, targets[leg], obstacles)} : search' = s
    /\ UNCHANGED <<session, pc, obstacles, full_path, current, leg, probe>>

\* a failed leg that stores the legs found so far
Return_prefix ==
    /\ pc = "a_star"
    /\ search.done
    /\ IF ~search.found \/ search.path = << >>
       THEN /\ path' = full_path
            /\ pc' = "done"
            /\ UNCHANGED <<full_path, current, leg>>
       ELSE /\ full_path' = Extend(full_path, search.path)
            /\ current' = targets[leg]
            /\ leg' = leg + 1
            /\ pc' = "for"
            /\ UNCHANGED path
    /\ UNCHANGED <<grid, inflated_obstacles, start, goal, waypoints, obstacles, search, probe>>

\* lines 177-183
Return ==
    /\ pc = "a_star"
    /\ search.done
    /\ IF ~search.found \/ search.path = << >>
       THEN /\ path' = << >>
            /\ pc' = "done"
            /\ UNCHANGED <<full_path, current, leg>>
       ELSE /\ full_path' = full_path \o
                   (IF full_path # << >> THEN Tail(search.path) ELSE search.path)
            /\ current' = targets[leg]
            /\ leg' = leg + 1
            /\ pc' = "for"
            /\ UNCHANGED path
    /\ UNCHANGED <<grid, inflated_obstacles, start, goal, waypoints, obstacles, search, probe>>

\* line 185
Store ==
    /\ pc = "for"
    /\ leg > Len(targets)
    /\ path' = full_path
    /\ pc' = "done"
    /\ UNCHANGED <<grid, inflated_obstacles, start, goal, waypoints, obstacles,
                   full_path, current, leg, search, probe>>

PlanNext == Enter \/ CallAStar \/ Pop \/ Return \/ Store

SpecPlan == PlanInit /\ [][PlanNext]_vars

\* The program is one thread that runs a started computation on: a step
\* that can be taken is taken.
SpecPlanFair == FairInit /\ [][PlanNext]_vars /\ WF_vars(PlanNext)

---------------------------------------------------------------------------
\* The coordinate conversions on their own

\* physical points on a 25 mm raster, to 50 mm beyond the field
ProbeCoords == {25 * k : k \in -(GRID_SIZE + 2) .. (GRID_SIZE + 2)}

MapperInit ==
    /\ \E p \in ProbeCoords \X ProbeCoords :
          probe = [stage |-> "point", point |-> p, cell |-> None,
                   centre |-> <<0, 0>>, back |-> None]
    /\ grid = {}
    /\ inflated_obstacles = {}
    /\ start = None
    /\ goal = None
    /\ waypoints = << >>
    /\ path = << >>
    /\ PlanningIdle

ToGrid ==
    /\ probe.stage = "point"
    /\ probe' = [probe EXCEPT !.stage = "cell",
                              !.cell = gps_to_grid(probe.point[1], probe.point[2])]
    /\ UNCHANGED <<session, planning>>

ToGps ==
    /\ probe.stage = "cell"
    /\ probe' = [probe EXCEPT !.stage = "centre",
                              !.centre = grid_to_gps(probe.cell[1], probe.cell[2])]
    /\ UNCHANGED <<session, planning>>

BackToGrid ==
    /\ probe.stage = "centre"
    /\ probe' = [probe EXCEPT !.stage = "back",
                              !.back = gps_to_grid(probe.centre[1], probe.centre[2])]
    /\ UNCHANGED <<session, planning>>

MapperNext == ToGrid \/ ToGps \/ BackToGrid

SpecMapper == MapperInit /\ [][MapperNext]_vars

---------------------------------------------------------------------------
\* What the properties are stated with

Adjacent4(a, b) == Abs(a[1] - b[1]) + Abs(a[2] - b[2]) = 1

\* the cells one move away from c that a route may enter
Moves(c, blocked) == {n \in Cells : Adjacent4(c, n) /\ n \notin blocked}

RECURSIVE Flood(_, _, _, _, _)
\* breadth-first distance from the frontier to b, -1 when b is out of reach
Flood(frontier, seen, b, blocked, d) ==
    IF b \in frontier THEN d
    ELSE IF frontier = {} THEN -1
    ELSE LET nxt == UNION {Moves(c, blocked) : c \in frontier} \ seen
         IN  Flood(nxt, seen \cup nxt, b, blocked, d + 1)

Distance(a, b, blocked) == Flood({a}, {a}, b, blocked, 0)

Reachable(a, b, blocked) == Distance(a, b, blocked) >= 0

Last(p) == p[Len(p)]

\* the search of the current leg has returned
Returned == pc = "a_star" /\ search.done

\* where leg i starts
LegFrom(i) == IF i = 1 THEN start ELSE targets[i - 1]

\* the cells within the collision radius of a base cell, by definition
ExactInflation(g) ==
    {c \in Cells : \E o \in g :
        LET p == grid_to_gps(c[1], c[2])
            q == grid_to_gps(o[1], o[2])
        IN  (p[1] - q[1]) * (p[1] - q[1]) + (p[2] - q[2]) * (p[2] - q[2])
              <= COLLISION_RADIUS_MM * COLLISION_RADIUS_MM}

\* the route planned from nothing but the current session
PlanFor(st, gl, wps, g) ==
    IF st = None \/ gl = None THEN << >>
    ELSE Only({Legs(Append(wps, gl), 1, st, << >>, infl) : infl \in {ExactInflation(g)}})

FromScratch == PlanFor(start, goal, waypoints, grid)

\* The stepwise computation stores what the handlers' compute_total_path
\* computes in one go.
StepwiseAgrees ==
    pc = "done" =>
        path = IF start = None \/ goal = None THEN << >>
               ELSE Legs(targets, 1, start, << >>, obstacles)

---------------------------------------------------------------------------
\* C1: a path a_star returns starts at its first argument, ends at its
\* second, moves between 4-adjacent cells, stays inside the grid, and
\* holds no blocked cell other than possibly the first argument.
C1_PathValid ==
    (Returned /\ search.found) =>
        LET p == search.path IN
        /\ Len(p) >= 1
        /\ p[1] = current
        /\ Last(p) = targets[leg]
        /\ \A i \in 1 .. Len(p) - 1 : Adjacent4(p[i], p[i + 1])
        /\ \A i \in 1 .. Len(p) : p[i] \in Cells
        /\ \A i \in 1 .. Len(p) : p[i] \in obstacles => p[i] = current

\* a path found from a blocked start, around obstacles
C1_Witness ==
    /\ Returned /\ search.found
    /\ current \in obstacles
    /\ Len(search.path) > heuristic(current, targets[leg]) + 1

\* C2: a path a_star returns is a shortest one: its cell count is the
\* breadth-first distance plus 1, which on an obstacle-free grid is the
\* Manhattan distance plus 1.
C2_Shortest ==
    (Returned /\ search.found) =>
        /\ Len(search.path) = Distance(current, targets[leg], obstacles) + 1
        /\ obstacles = {} =>
             Len(search.path) = Abs(current[1] - targets[leg][1])
                                  + Abs(current[2] - targets[leg][2]) + 1

\* a shortest path that is longer than the Manhattan distance allows
C2_Witness ==
    /\ Returned /\ search.found
    /\ Len(search.path) >= heuristic(current, targets[leg]) + 5

\* C3: the route is all or nothing: when a leg of start -> waypoints ->
\* goal is infeasible the stored route is empty, whatever the earlier legs
\* gave, and nothing is stored before the computation ends.
C3_AllOrNothing ==
    /\ pc \in {"call", "for", "a_star"} => path = << >>
    /\ (/\ pc = "done" /\ start # None /\ goal # None
        /\ \E i \in 1 .. Len(targets) : ~Reachable(LegFrom(i), targets[i], obstacles))
       => path = << >>

\* a first leg that succeeded and a second that did not
C3_Witness ==
    /\ pc = "done" /\ start # None /\ goal # None
    /\ Len(waypoints) >= 1
    /\ leg = 2
    /\ Len(full_path) >= 3
    /\ ~Reachable(current, targets[leg], obstacles)
    /\ path = << >>

\* C9: a_star returns None exactly when its second argument is out of
\* reach of its first by moves through unblocked cells of the grid; a
\* search from a cell to itself returns that one cell, blocked or not; a
\* route to an unreachable goal is empty.
C9_NoneIffUnreachable ==
    /\ Returned =>
         /\ search.found <=> Reachable(current, targets[leg], obstacles)
         /\ current = targets[leg] => search.found /\ search.path = <<current>>
    /\ (/\ pc = "done" /\ start # None /\ goal # None
        /\ ~Reachable(LegFrom(Len(targets)), goal, obstacles))
       => path = << >>

\* None for a goal that is free but walled off
C9_Witness ==
    /\ Returned /\ ~search.found
    /\ targets[leg] \notin obstacles
    /\ current \notin obstacles

\* C10: every started route computation ends: each search empties its
\* heap or reaches its target, and the route is stored.
C10_Terminates == <>(pc = "done")

\* a computation of two legs that has ended with a route
C10_Witness ==
    /\ pc = "done"
    /\ Len(waypoints) >= 1
    /\ path # << >>
    /\ obstacles # {}

---------------------------------------------------------------------------
\* C4: a stored route that is not empty moves between 4-adjacent cells,
\* starts at start, ends at goal, and holds no cell of the current
\* inflated set other than possibly start.
C4_RouteInvariant ==
    path # << >> =>
        /\ \A i \in 1 .. Len(path) - 1 : Adjacent4(path[i], path[i + 1])
        /\ path[1] = start
        /\ Last(path) = goal
        /\ \A i \in 1 .. Len(path) : path[i] \in inflated_obstacles => path[i] = start

\* a route past inflated obstacles, by a waypoint
C4_Witness ==
    /\ path # << >>
    /\ Len(path) >= 4
    /\ waypoints # << >>
    /\ inflated_obstacles # {}

\* C5: the inflated set always holds every base obstacle.
C5_InflatedSuperset == grid \subseteq inflated_obstacles

C7_AlwaysFromScratch == path = FromScratch

\* C7, amended: every step stores the route planned from scratch for the
\* session it leaves behind, except clear_path_and_waypoints (key C),
\* which leaves the route empty without a search.
C7_FromScratchUnlessCleared ==
    [][\/ \E st \in {start'} : \E gl \in {goal'} : \E wps \in {waypoints'} :
            \E g \in {grid'} : path' = PlanFor(st, gl, wps, g)
       \/ KeyC /\ path' = << >> /\ waypoints' = << >>]_vars

\* a route planned anew after an obstacle edit, by a waypoint
C7_Witness ==
    /\ path # << >>
    /\ grid # {}
    /\ waypoints # << >>
    /\ path = FromScratch

---------------------------------------------------------------------------
\* C8: a cell's centre maps back to the cell.
C8_RoundTrip == probe.stage = "back" => probe.back = probe.cell

\* a round trip through a cell inside the grid's last column
C8_Witness ==
    /\ probe.stage = "back"
    /\ probe.cell = <<GRID_SIZE - 1, 1>>
    /\ probe.back = probe.cell

====
